---- MODULE Spec2Model ----
(***************************************************************************)
(* The pipeline-subobject registry of DxilSubobject.cpp (class             *)
(* DxilSubobjects and its records, class DxilSubobject) as a state         *)
(* machine.                                                                *)
(*                                                                         *)
(* Memory is modelled by addresses.  Caller-owned buffers have fixed       *)
(* addresses; every buffer a registry stores gets a fresh address from the *)
(* allocation counter brk.  A pointer is an address; reading a string or a *)
(* blob through a pointer looks the address up in the caller buffers and   *)
(* in the stores of the registries that are still alive.                   *)
(*                                                                         *)
(* GetSubobjectString keys a stored string by the address of the character *)
(* buffer of its local std::string, taken before the string is moved into  *)
(* the store (lines 305-308).  Whether that address stays valid depends on *)
(* the std::string of the build: a string that keeps its characters on the *)
(* heap hands the buffer over when moved; a string that keeps short        *)
(* contents inside the string object (small-string storage) copies them,   *)
(* and the address is that of a local destroyed at return.  All strings of *)
(* the model are short.  SSO says which build it is, and junk is what a    *)
(* read through a pointer to a destroyed local finds.                      *)
(* Strings are C strings: no embedded NUL.                                 *)
(***************************************************************************)
EXTENDS Integers, Sequences, FiniteSets, TLC

VARIABLES
  regs,     \* the registries: RegIds -> DxilSubobjects object
  brk,      \* next fresh heap address
  NDEBUG,   \* build configuration: TRUE when DXASSERT is compiled out
  SSO,      \* build configuration: TRUE when std::string keeps short contents
            \* inside the string object
  junk,     \* the characters read through a pointer to a destroyed local
  halted,   \* TRUE once a DXASSERT has fired
  steps,    \* number of state-changing calls made so far
  created,  \* history: per registry, the names created or cloned and not removed
            \* since, each with the address of the object made for it
  born,     \* history: the kind each object was created with, by address
  last,     \* the last call: what was called, with what, and what it returned
  type,     \* shape classifier: the source type under classification
  shape     \* shape classifier: what each predicate returned for type

vars == <<regs, brk, NDEBUG, SSO, junk, halted, steps, created, born, last, type, shape>>

registryVars == <<regs, brk, NDEBUG, SSO, junk, halted, steps, created, born, last>>

shapeVars == <<type, shape>>

build == <<NDEBUG, SSO, junk>>

----------------------------------------------------------------------------
(* Bounds of the model. *)

MaxSteps == 3

(* Input domains. *)

RegIds == {1, 2}
Names == {"A", "B"}

NullPtr == 0

\* Caller-owned C strings (the elements of an Exports array), by address.
CallerStrings == (1 :> "f") @@ (2 :> "g")

\* Caller-owned byte buffers, by address.  They hold equal bytes.
CallerBlobs == (3 :> <<7, 8>>) @@ (4 :> <<7, 8>>)

\* A caller-owned buffer of UINT_MAX bytes or more; its bytes are not modelled.
HugeBlob == 6

HeapBase == 10

\* What a caller passes.
InternInputs == {"A", "f"}
FlagInputs == {3, 4}
AssociationTargets == {"B"}
ExportInputs == {<<>>, <<2, 1>>}
ShaderConfigInputs == {<<16, 8>>}
PipelineConfigInputs == {2}
HitGroupInputs == {<<"f", "", "g">>}

\* What the bytes of a destroyed local can read as.
Garbage == {"", "A"}

\* What a caller's output variable holds before an accessor is called.
Unset == 99

----------------------------------------------------------------------------
(* DXIL::SubobjectKind and DXIL::StateObjectFlags::ValidMask. *)

Kind ==
  {"StateObjectConfig", "GlobalRootSignature", "LocalRootSignature",
   "SubobjectToExportsAssociation", "RaytracingShaderConfig",
   "RaytracingPipelineConfig", "HitGroup"}

ValidMask == 3

\* a & ~b on naturals
RECURSIVE BitAndNot(_, _)
BitAndNot(a, b) ==
  IF a = 0 THEN 0
  ELSE ((a % 2) * (1 - (b % 2))) + 2 * BitAndNot(a \div 2, b \div 2)

\* DXASSERT(cond): execution continues past it unless the build checks
\* assertions and cond is false.
DXASSERT(cond) == NDEBUG \/ cond

----------------------------------------------------------------------------
(* Memory. *)

NoObject == [null |-> TRUE]

EmptyRegistry ==
  [alive |-> TRUE, m_StringStorage |-> {}, m_RawBytesStorage |-> {},
   m_Subobjects |-> {}]

\* The stored string entries / blob entries of the registries still alive.
LiveStrings(rs) == UNION {rs[r].m_StringStorage : r \in {q \in RegIds : rs[q].alive}}
LiveBlobs(rs) == UNION {rs[r].m_RawBytesStorage : r \in {q \in RegIds : rs[q].alive}}

\* A const char* can be read when it points at a live C string.
StrResolvable(rs, p) ==
  p \in DOMAIN CallerStrings \/ \E e \in LiveStrings(rs) : e.ptr = p

\* A stored string is [ptr, str, dead]: str the characters the mapped
\* std::string holds, ptr the address its key points at, dead whether that
\* address is one of a destroyed local.  The characters a key points at:
KeyChars(e) == IF e.dead THEN junk ELSE e.str

\* StringRef(const char*): the characters at address p.
StrAt(rs, p) ==
  IF p \in DOMAIN CallerStrings THEN CallerStrings[p]
  ELSE KeyChars(CHOOSE e \in LiveStrings(rs) : e.ptr = p)

BlobResolvable(rs, p) ==
  p \in DOMAIN CallerBlobs \/ \E e \in LiveBlobs(rs) : e.ptr = p

BytesAt(rs, p) ==
  IF p \in DOMAIN CallerBlobs THEN CallerBlobs[p]
  ELSE (CHOOSE e \in LiveBlobs(rs) : e.ptr = p).bytes

----------------------------------------------------------------------------
(* DxilSubobjects: interning.  A machine m is [regs, brk]; self is the     *)
(* registry the method is called on.                                       *)

\* find compares value with the characters each key points at.
GetSubobjectString(m, self, value) ==
  LET store == m.regs[self].m_StringStorage IN
  IF \E e \in store : KeyChars(e) = value
  THEN [m |-> m, ret |-> (CHOOSE e \in store : KeyChars(e) = value).ptr]
  ELSE [m |-> [regs |-> [m.regs EXCEPT ![self].m_StringStorage =
                            @ \cup {[ptr |-> m.brk, str |-> value, dead |-> SSO]}],
               brk |-> m.brk + 1],
        ret |-> m.brk]

\* size_t values, in two 16-bit limbs so that UINT_MAX can be written.
ToSize(n) == [hi |-> n \div 65536, lo |-> n % 65536]
SizeLess(a, b) == a.hi < b.hi \/ (a.hi = b.hi /\ a.lo < b.lo)
UINT_MAX == [hi |-> 65535, lo |-> 65535]

\* A GetRawBytes that hands the caller's pointer back when the size is
\* UINT_MAX or more.
GetRawBytesHandsBack(m, self, ptr, size) ==
  LET store == m.regs[self].m_RawBytesStorage IN
  IF \E e \in store : e.ptr = ptr
  THEN [m |-> m, ok |-> TRUE, ret |-> ptr]
  ELSE IF ~DXASSERT(SizeLess(size, UINT_MAX))
  THEN [m |-> m, ok |-> FALSE, ret |-> NullPtr]
  ELSE IF ~SizeLess(size, UINT_MAX)
  THEN [m |-> m, ok |-> TRUE, ret |-> ptr]
  ELSE [m |-> [regs |-> [m.regs EXCEPT ![self].m_RawBytesStorage =
                            @ \cup {[ptr |-> m.brk,
                                     bytes |-> SubSeq(BytesAt(m.regs, ptr), 1, size.lo)]}],
               brk |-> m.brk + 1],
        ok |-> TRUE, ret |-> m.brk]

\* Returns ok = FALSE when the DXASSERT fires.
GetRawBytes(m, self, ptr, size) ==
  LET store == m.regs[self].m_RawBytesStorage IN
  IF \E e \in store : e.ptr = ptr
  THEN [m |-> m, ok |-> TRUE, ret |-> ptr]
  ELSE IF ~DXASSERT(SizeLess(size, UINT_MAX))
  THEN [m |-> m, ok |-> FALSE, ret |-> NullPtr]
  ELSE IF ~SizeLess(size, UINT_MAX)
  THEN [m |-> m, ok |-> TRUE, ret |-> NullPtr]
  ELSE [m |-> [regs |-> [m.regs EXCEPT ![self].m_RawBytesStorage =
                            @ \cup {[ptr |-> m.brk,
                                     bytes |-> SubSeq(BytesAt(m.regs, ptr), 1, size.lo)]}],
               brk |-> m.brk + 1],
        ok |-> TRUE, ret |-> m.brk]

----------------------------------------------------------------------------
(* DxilSubobjects: the name-keyed map.  An entry is [key, obj]: key is the *)
(* address of the interned name the StringRef key points at, and keys      *)
(* compare by the characters they point at.                                *)

KeyMatches(m, e, name) == StrAt(m.regs, e.key) = name

FindSubobject(m, self, name) ==
  LET map == m.regs[self].m_Subobjects IN
  IF \E e \in map : KeyMatches(m, e, name)
  THEN [m |-> m, ret |-> (CHOOSE e \in map : KeyMatches(m, e, name)).obj]
  ELSE [m |-> m, ret |-> NoObject]

RemoveSubobject(m, self, name) ==
  LET map == m.regs[self].m_Subobjects IN
  IF \E e \in map : KeyMatches(m, e, name)
  THEN [regs |-> [m.regs EXCEPT ![self].m_Subobjects =
                    @ \ {CHOOSE e \in map : KeyMatches(m, e, name)}],
        brk |-> m.brk]
  ELSE m

\* m_Subobjects[Name] = std::move(ptr): Name is an interned address.
MapAssign(m, self, Name, obj) ==
  LET map == m.regs[self].m_Subobjects
      name == StrAt(m.regs, Name)
  IN IF \E e \in map : KeyMatches(m, e, name)
     THEN LET old == CHOOSE e \in map : KeyMatches(m, e, name)
          IN [regs |-> [m.regs EXCEPT ![self].m_Subobjects =
                          (@ \ {old}) \cup {[key |-> old.key, obj |-> obj]}],
              brk |-> m.brk]
     ELSE [regs |-> [m.regs EXCEPT ![self].m_Subobjects =
                       @ \cup {[key |-> Name, obj |-> obj]}],
           brk |-> m.brk]

\* obj.<member of the union> = ...; obj is the reference CreateSubobject
\* returned, ref the address of the object it refers to.
SetUnion(m, self, ref, u) ==
  LET map == m.regs[self].m_Subobjects
      e == CHOOSE x \in map : x.obj.addr = ref
  IN [regs |-> [m.regs EXCEPT ![self].m_Subobjects =
                  (@ \ {e}) \cup {[key |-> e.key, obj |-> [e.obj EXCEPT !.u = u]]}],
      brk |-> m.brk]

\* obj.m_Exports.assign(Exports, Exports + NumExports)
AssignExports(m, self, ref, Exports, NumExports) ==
  LET map == m.regs[self].m_Subobjects
      e == CHOOSE x \in map : x.obj.addr = ref
  IN [regs |-> [m.regs EXCEPT ![self].m_Subobjects =
                  (@ \ {e}) \cup {[key |-> e.key,
                                   obj |-> [e.obj EXCEPT !.m_Exports =
                                              SubSeq(Exports, 1, NumExports)]]}],
      brk |-> m.brk]

----------------------------------------------------------------------------
(* DxilSubobject.  An object is [addr, m_Owner, m_Kind, m_Name, m_Exports,  *)
(* u]: addr the address operator new gave it, m_Owner the registry it      *)
(* refers to, m_Name and the elements of m_Exports addresses, u the member *)
(* of the union that m_Kind selects.                                       *)

Uninitialized == [uninitialized |-> TRUE]

\* DxilSubobject(DxilSubobjects &owner, Kind kind, StringRef name)
\* allocated at m.brk.  Returns [m, obj].
NewSubobject(m, owner, kind, name) ==
  LET g == GetSubobjectString([regs |-> m.regs, brk |-> m.brk + 1], owner, name)
  IN [m |-> g.m,
      obj |-> [addr |-> m.brk, m_Owner |-> owner, m_Kind |-> kind, m_Name |-> g.ret,
               m_Exports |-> <<>>, u |-> Uninitialized]]

\* The union of this after CopyUnionedContents(other), this.m_Kind = kind.
CopyUnionedContents(kind, other) ==
  CASE kind = "StateObjectConfig" -> [Flags |-> other.u.Flags]
    [] kind \in {"GlobalRootSignature", "LocalRootSignature"} ->
         [Size |-> other.u.Size, Data |-> other.u.Data]
    [] kind = "SubobjectToExportsAssociation" -> [Subobject |-> other.u.Subobject]
    [] kind = "RaytracingShaderConfig" ->
         [MaxPayloadSizeInBytes |-> other.u.MaxPayloadSizeInBytes,
          MaxAttributeSizeInBytes |-> other.u.MaxAttributeSizeInBytes]
    [] kind = "RaytracingPipelineConfig" ->
         [MaxTraceRecursionDepth |-> other.u.MaxTraceRecursionDepth]
    [] kind = "HitGroup" ->
         [Intersection |-> other.u.Intersection, AnyHit |-> other.u.AnyHit,
          ClosestHit |-> other.u.ClosestHit]

\* for (auto &ptr : m_Exports) ptr = m_Owner.GetSubobjectString(ptr).data();
\* from element i on.  Returns [m, exports].
RECURSIVE InternExports(_, _, _, _)
InternExports(m, owner, exports, i) ==
  IF i > Len(exports) THEN [m |-> m, exports |-> exports]
  ELSE LET g == GetSubobjectString(m, owner, StrAt(m.regs, exports[i]))
       IN InternExports(g.m, owner, [exports EXCEPT ![i] = g.ret], i + 1)

\* Returns [m, obj].
InternStrings(m, obj) ==
  LET own == obj.m_Owner
      n == GetSubobjectString(m, own, StrAt(m.regs, obj.m_Name))
      named == [obj EXCEPT !.m_Name = n.ret]
  IN CASE obj.m_Kind = "SubobjectToExportsAssociation" ->
            LET s == GetSubobjectString(n.m, own, StrAt(n.m.regs, obj.u.Subobject))
                x == InternExports(s.m, own, obj.m_Exports, 1)
            IN [m |-> x.m,
                obj |-> [named EXCEPT !.u = [Subobject |-> s.ret],
                                      !.m_Exports = x.exports]]
       [] obj.m_Kind = "HitGroup" ->
            LET i == GetSubobjectString(n.m, own, StrAt(n.m.regs, obj.u.Intersection))
                a == GetSubobjectString(i.m, own, StrAt(i.m.regs, obj.u.AnyHit))
                c == GetSubobjectString(a.m, own, StrAt(a.m.regs, obj.u.ClosestHit))
            IN [m |-> c.m,
                obj |-> [named EXCEPT !.u = [Intersection |-> i.ret, AnyHit |-> a.ret,
                                             ClosestHit |-> c.ret]]]
       [] OTHER -> [m |-> n.m, obj |-> named]

\* A copy constructor that leaves m_Kind at the first enumerator instead of
\* taking other.m_Kind.
CopySubobjectDefaultKind(m, owner, other, name) ==
  LET obj == [addr |-> m.brk, m_Owner |-> owner, m_Kind |-> "StateObjectConfig",
              m_Name |-> name, m_Exports |-> other.m_Exports,
              u |-> CopyUnionedContents(other.m_Kind, other)]
      m1 == [regs |-> m.regs, brk |-> m.brk + 1]
  IN IF owner # other.m_Owner THEN InternStrings(m1, obj) ELSE [m |-> m1, obj |-> obj]

\* DxilSubobject(DxilSubobjects &owner, const DxilSubobject &other, StringRef name);
\* name is the address the StringRef points at; allocated at m.brk.
\* Returns [m, obj].
CopySubobject(m, owner, other, name) ==
  LET obj == [addr |-> m.brk, m_Owner |-> owner, m_Kind |-> other.m_Kind,
              m_Name |-> name, m_Exports |-> other.m_Exports,
              u |-> CopyUnionedContents(other.m_Kind, other)]
      m1 == [regs |-> m.regs, brk |-> m.brk + 1]
  IN IF owner # other.m_Owner THEN InternStrings(m1, obj) ELSE [m |-> m1, obj |-> obj]

(* The accessors.  The reference arguments come in with the values the     *)
(* caller's variables hold and go out in the result, beside ret.           *)

GetStateObjectConfig(obj, Flags) ==
  IF obj.m_Kind = "StateObjectConfig"
  THEN [ret |-> TRUE, Flags |-> obj.u.Flags]
  ELSE [ret |-> FALSE, Flags |-> Flags]

\* A GetRootSignature that takes either root-signature kind, whatever local is.
GetRootSignatureIgnoringLocal(obj, local, Data, Size) ==
  IF obj.m_Kind \in {"GlobalRootSignature", "LocalRootSignature"}
  THEN [ret |-> TRUE, Data |-> obj.u.Data, Size |-> obj.u.Size]
  ELSE [ret |-> FALSE, Data |-> Data, Size |-> Size]

GetRootSignature(obj, local, Data, Size) ==
  LET expected == IF local THEN "LocalRootSignature" ELSE "GlobalRootSignature"
  IN IF obj.m_Kind = expected
     THEN [ret |-> TRUE, Data |-> obj.u.Data, Size |-> obj.u.Size]
     ELSE [ret |-> FALSE, Data |-> Data, Size |-> Size]

GetSubobjectToExportsAssociation(obj, Subobject, Exports, NumExports) ==
  IF obj.m_Kind = "SubobjectToExportsAssociation"
  THEN [ret |-> TRUE, Subobject |-> obj.u.Subobject, Exports |-> obj.m_Exports,
        NumExports |-> Len(obj.m_Exports)]
  ELSE [ret |-> FALSE, Subobject |-> Subobject, Exports |-> Exports,
        NumExports |-> NumExports]

GetRaytracingShaderConfig(obj, MaxPayloadSizeInBytes, MaxAttributeSizeInBytes) ==
  IF obj.m_Kind = "RaytracingShaderConfig"
  THEN [ret |-> TRUE, MaxPayloadSizeInBytes |-> obj.u.MaxPayloadSizeInBytes,
        MaxAttributeSizeInBytes |-> obj.u.MaxAttributeSizeInBytes]
  ELSE [ret |-> FALSE, MaxPayloadSizeInBytes |-> MaxPayloadSizeInBytes,
        MaxAttributeSizeInBytes |-> MaxAttributeSizeInBytes]

GetRaytracingPipelineConfig(obj, MaxTraceRecursionDepth) ==
  IF obj.m_Kind = "RaytracingPipelineConfig"
  THEN [ret |-> TRUE, MaxTraceRecursionDepth |-> obj.u.MaxTraceRecursionDepth]
  ELSE [ret |-> FALSE, MaxTraceRecursionDepth |-> MaxTraceRecursionDepth]

GetHitGroup(obj, Intersection, AnyHit, ClosestHit) ==
  IF obj.m_Kind = "HitGroup"
  THEN [ret |-> TRUE, Intersection |-> obj.u.Intersection, AnyHit |-> obj.u.AnyHit,
        ClosestHit |-> obj.u.ClosestHit]
  ELSE [ret |-> FALSE, Intersection |-> Intersection, AnyHit |-> AnyHit,
        ClosestHit |-> ClosestHit]

----------------------------------------------------------------------------
(* DxilSubobjects: creation and cloning.  Each returns [m, ok, ref]: ref is *)
(* the address of the object the returned reference refers to; ok = FALSE  *)
(* when a DXASSERT fired, and then nothing after it was executed.          *)

\* Name is the characters of the StringRef passed in.
CreateSubobject(m, self, kind, Name) ==
  LET g == GetSubobjectString(m, self, Name)
  IN IF ~DXASSERT(FindSubobject(g.m, self, StrAt(g.m.regs, g.ret)).ret = NoObject)
     THEN [m |-> g.m, ok |-> FALSE, ref |-> NullPtr]
     ELSE LET c == NewSubobject(g.m, self, kind, StrAt(g.m.regs, g.ret))
          IN [m |-> MapAssign(c.m, self, g.ret, c.obj), ok |-> TRUE,
              ref |-> c.obj.addr]

\* Subobject is the object copied; Name the characters of the new name.
CloneSubobject(m, self, Subobject, Name) ==
  LET g == GetSubobjectString(m, self, Name)
  IN IF ~DXASSERT(FindSubobject(g.m, self, StrAt(g.m.regs, g.ret)).ret = NoObject)
     THEN [m |-> g.m, ok |-> FALSE, ref |-> NullPtr]
     ELSE LET c == CopySubobject(g.m, self, Subobject, g.ret)
          IN [m |-> MapAssign(c.m, self, g.ret, c.obj), ok |-> TRUE,
              ref |-> c.obj.addr]

CreateStateObjectConfig(m, self, Name, Flags) ==
  IF ~DXASSERT(0 = BitAndNot(Flags, ValidMask))
  THEN [m |-> m, ok |-> FALSE, ref |-> NullPtr]
  ELSE LET c == CreateSubobject(m, self, "StateObjectConfig", Name)
       IN IF ~c.ok THEN c
          ELSE [m |-> SetUnion(c.m, self, c.ref, [Flags |-> Flags]),
                ok |-> TRUE, ref |-> c.ref]

CreateRootSignature(m, self, Name, local, Data, Size) ==
  LET c == CreateSubobject(m, self,
             IF local THEN "LocalRootSignature" ELSE "GlobalRootSignature", Name)
  IN IF ~c.ok THEN c
     ELSE [m |-> SetUnion(c.m, self, c.ref, [Size |-> Size, Data |-> Data]),
           ok |-> TRUE, ref |-> c.ref]

\* Subobject is the characters of the StringRef; Exports the array of
\* const char*, NumExports its length.
CreateSubobjectToExportsAssociation(m, self, Name, Subobject, Exports, NumExports) ==
  LET c == CreateSubobject(m, self, "SubobjectToExportsAssociation", Name)
  IN IF ~c.ok THEN c
     ELSE LET s == GetSubobjectString(c.m, self, Subobject)
          IN [m |-> AssignExports(SetUnion(s.m, self, c.ref, [Subobject |-> s.ret]),
                                  self, c.ref, Exports, NumExports),
              ok |-> TRUE, ref |-> c.ref]

CreateRaytracingShaderConfig(m, self, Name, MaxPayloadSizeInBytes, MaxAttributeSizeInBytes) ==
  LET c == CreateSubobject(m, self, "RaytracingShaderConfig", Name)
  IN IF ~c.ok THEN c
     ELSE [m |-> SetUnion(c.m, self, c.ref,
                            [MaxPayloadSizeInBytes |-> MaxPayloadSizeInBytes,
                             MaxAttributeSizeInBytes |-> MaxAttributeSizeInBytes]),
           ok |-> TRUE, ref |-> c.ref]

CreateRaytracingPipelineConfig(m, self, Name, MaxTraceRecursionDepth) ==
  LET c == CreateSubobject(m, self, "RaytracingPipelineConfig", Name)
  IN IF ~c.ok THEN c
     ELSE [m |-> SetUnion(c.m, self, c.ref,
                            [MaxTraceRecursionDepth |-> MaxTraceRecursionDepth]),
           ok |-> TRUE, ref |-> c.ref]

CreateHitGroup(m, self, Name, Intersection, AnyHit, ClosestHit) ==
  LET c == CreateSubobject(m, self, "HitGroup", Name)
  IN IF ~c.ok THEN c
     ELSE LET i == GetSubobjectString(c.m, self, Intersection)
              a == GetSubobjectString(i.m, self, AnyHit)
              h == GetSubobjectString(a.m, self, ClosestHit)
          IN [m |-> SetUnion(h.m, self, c.ref,
                               [Intersection |-> i.ret, AnyHit |-> a.ret,
                                ClosestHit |-> h.ret]),
              ok |-> TRUE, ref |-> c.ref]

\* ~DxilSubobjects(): the map and both stores are freed.
Destroy(m, self) ==
  [regs |-> [m.regs EXCEPT ![self] =
               [alive |-> FALSE, m_StringStorage |-> {}, m_RawBytesStorage |-> {},
                m_Subobjects |-> {}]],
   brk |-> m.brk]

\* DxilSubobjects(DxilSubobjects &&other): the registry constructed at self
\* takes the three containers of other, which are left empty.  The nodes
\* and the objects they hold stay where they are, so no address changes
\* and no member of an object is written.
MoveConstruct(m, self, other) ==
  [regs |-> [m.regs EXCEPT ![self] = m.regs[other],
                           ![other] = EmptyRegistry],
   brk |-> m.brk]

----------------------------------------------------------------------------
(* The calls a program makes on its registries.                            *)

M == [regs |-> regs, brk |-> brk]

CanCall(r) == ~halted /\ regs[r].alive

\* History: the kind the object at address a was created with.
BornKind(a) == (CHOOSE b \in born : b.addr = a).kind

Record(r, name, ref) ==
  [created EXCEPT ![r] = {c \in @ : c.name # name} \cup {[name |-> name, addr |-> ref]}]

\* The effect of a call that returned result = [m, ok, ref] and stored an
\* object of the given kind under name in registry r.  After a DXASSERT
\* has fired nothing more is executed.  fresh: nothing was stored under
\* name before.
Mutate(r, result, op, name, kind, args) ==
  /\ steps < MaxSteps
  /\ \E res \in {result} :
       /\ regs' = IF res.ok THEN res.m.regs ELSE regs
       /\ brk' = IF res.ok THEN res.m.brk ELSE brk
       /\ halted' = ~res.ok
       /\ created' = IF res.ok THEN Record(r, name, res.ref) ELSE created
       /\ born' = IF res.ok THEN born \cup {[addr |-> res.ref, kind |-> kind]} ELSE born
       /\ last' = [op |-> op, reg |-> r, name |-> name, ok |-> res.ok,
                   fresh |-> \A c \in created[r] : c.name # name,
                   ref |-> res.ref, args |-> args, ret |-> NoObject]
  /\ steps' = steps + 1
  /\ UNCHANGED <<build, shapeVars>>

\* The effect of a call that returns a value: result = [m, ret].
Observe(r, result, op, name, args) ==
  /\ steps < MaxSteps
  /\ \E res \in {result} :
       /\ regs' = res.m.regs
       /\ brk' = res.m.brk
       /\ last' = [op |-> op, reg |-> r, name |-> name, ok |-> TRUE, fresh |-> FALSE,
                   ref |-> NullPtr, args |-> args, ret |-> res.ret]
  /\ steps' = steps + 1
  /\ UNCHANGED <<build, halted, created, born, shapeVars>>

CallGetSubobjectString(r, value) ==
  /\ CanCall(r)
  /\ steps < MaxSteps
  /\ \E g \in {GetSubobjectString(M, r, value)} :
        /\ regs' = g.m.regs
        /\ brk' = g.m.brk
        /\ last' = [op |-> "GetSubobjectString", reg |-> r, name |-> value,
                    ok |-> TRUE, fresh |-> FALSE, ref |-> NullPtr,
                    args |-> [value |-> value], ret |-> [ptr |-> g.ret]]
  /\ steps' = steps + 1
  /\ UNCHANGED <<build, halted, created, born, shapeVars>>

\* The (ptr, size) pairs a caller passes: one of its buffers or a stored
\* instance with its length, the huge buffer, or a stored instance with a
\* size of UINT_MAX.
RawBytesInputs(r) ==
  {[ptr |-> p, size |-> ToSize(Len(BytesAt(regs, p)))] :
     p \in DOMAIN CallerBlobs \cup {e.ptr : e \in regs[r].m_RawBytesStorage}}
  \cup {[ptr |-> HugeBlob, size |-> UINT_MAX],
        [ptr |-> HugeBlob, size |-> [hi |-> 65536, lo |-> 0]]}
  \cup {[ptr |-> e.ptr, size |-> UINT_MAX] : e \in regs[r].m_RawBytesStorage}

CallGetRawBytes(r, in) ==
  /\ CanCall(r)
  /\ steps < MaxSteps
  /\ \E g \in {GetRawBytes(M, r, in.ptr, in.size)} :
        /\ regs' = IF g.ok THEN g.m.regs ELSE regs
        /\ brk' = IF g.ok THEN g.m.brk ELSE brk
        /\ halted' = ~g.ok
        /\ last' = [op |-> "GetRawBytes", reg |-> r, name |-> "", ok |-> g.ok,
                    fresh |-> FALSE, ref |-> NullPtr, args |-> in,
                    ret |-> [ptr |-> g.ret]]
  /\ steps' = steps + 1
  /\ UNCHANGED <<build, created, born, shapeVars>>

CallCreateStateObjectConfig(r, Name, Flags) ==
  /\ CanCall(r)
  /\ Mutate(r, CreateStateObjectConfig(M, r, Name, Flags),
            "CreateStateObjectConfig", Name, "StateObjectConfig", [Flags |-> Flags])

\* Data points at a buffer of the caller or at an instance GetRawBytes returned.
RootSignatureInputs(r) == {3} \cup {e.ptr : e \in regs[r].m_RawBytesStorage}

CallCreateRootSignature(r, Name, local, Data) ==
  /\ CanCall(r)
  /\ Data \in RootSignatureInputs(r)
  /\ Mutate(r, CreateRootSignature(M, r, Name, local, Data, Len(BytesAt(regs, Data))),
            "CreateRootSignature", Name,
            IF local THEN "LocalRootSignature" ELSE "GlobalRootSignature",
            [local |-> local, Data |-> Data, Size |-> Len(BytesAt(regs, Data)),
             bytes |-> BytesAt(regs, Data)])

CallCreateSubobjectToExportsAssociation(r, Name, Subobject, Exports) ==
  /\ CanCall(r)
  /\ Mutate(r, CreateSubobjectToExportsAssociation(M, r, Name, Subobject, Exports,
                                                   Len(Exports)),
            "CreateSubobjectToExportsAssociation", Name, "SubobjectToExportsAssociation",
            [Subobject |-> Subobject, Exports |-> Exports,
             NumExports |-> Len(Exports),
             strings |-> [i \in DOMAIN Exports |-> StrAt(regs, Exports[i])]])

CallCreateRaytracingShaderConfig(r, Name, in) ==
  /\ CanCall(r)
  /\ Mutate(r, CreateRaytracingShaderConfig(M, r, Name, in[1], in[2]),
            "CreateRaytracingShaderConfig", Name, "RaytracingShaderConfig",
            [MaxPayloadSizeInBytes |-> in[1], MaxAttributeSizeInBytes |-> in[2]])

CallCreateRaytracingPipelineConfig(r, Name, depth) ==
  /\ CanCall(r)
  /\ Mutate(r, CreateRaytracingPipelineConfig(M, r, Name, depth),
            "CreateRaytracingPipelineConfig", Name, "RaytracingPipelineConfig",
            [MaxTraceRecursionDepth |-> depth])

CallCreateHitGroup(r, Name, in) ==
  /\ CanCall(r)
  /\ Mutate(r, CreateHitGroup(M, r, Name, in[1], in[2], in[3]),
            "CreateHitGroup", Name, "HitGroup",
            [Intersection |-> in[1], AnyHit |-> in[2], ClosestHit |-> in[3]])

\* The source is an object held by registry q (q = r: a clone in place).
CallCloneSubobject(r, q, e, Name) ==
  /\ CanCall(r)
  /\ regs[q].alive
  /\ e \in regs[q].m_Subobjects
  /\ Mutate(r, CloneSubobject(M, r, e.obj, Name), "CloneSubobject", Name,
            BornKind(e.obj.addr), [from |-> q, source |-> e.obj.addr])

CallRemoveSubobject(r, name) ==
  /\ CanCall(r)
  /\ steps < MaxSteps
  /\ \E m \in {RemoveSubobject(M, r, name)} :
        /\ regs' = m.regs
        /\ brk' = m.brk
  /\ created' = [created EXCEPT ![r] = {c \in @ : c.name # name}]
  /\ last' = [op |-> "RemoveSubobject", reg |-> r, name |-> name, ok |-> TRUE,
              fresh |-> \A c \in created[r] : c.name # name,
              ref |-> NullPtr, args |-> [name |-> name], ret |-> NoObject]
  /\ steps' = steps + 1
  /\ UNCHANGED <<build, halted, born, shapeVars>>

CallFindSubobject(r, name) ==
  /\ CanCall(r)
  /\ Observe(r, FindSubobject(M, r, name), "FindSubobject", name, [name |-> name])

CallDestroy(r) ==
  /\ CanCall(r)
  /\ steps < MaxSteps
  /\ \E m \in {Destroy(M, r)} :
        /\ regs' = m.regs
        /\ brk' = m.brk
  /\ created' = [created EXCEPT ![r] = {}]
  /\ last' = [op |-> "Destroy", reg |-> r, name |-> "", ok |-> TRUE, fresh |-> FALSE,
              ref |-> NullPtr, args |-> NoObject, ret |-> NoObject]
  /\ steps' = steps + 1
  /\ UNCHANGED <<build, halted, born, shapeVars>>

\* A registry is constructed, in the storage of one that was destroyed,
\* from the registry other.
CallMoveConstruct(r, other) ==
  /\ ~halted
  /\ steps < MaxSteps
  /\ ~regs[r].alive
  /\ regs[other].alive
  /\ \E m \in {MoveConstruct(M, r, other)} :
        /\ regs' = m.regs
        /\ brk' = m.brk
  /\ created' = [created EXCEPT ![r] = created[other], ![other] = {}]
  /\ last' = [op |-> "MoveConstruct", reg |-> r, name |-> "", ok |-> TRUE,
              fresh |-> FALSE, ref |-> NullPtr, args |-> [other |-> other],
              ret |-> NoObject]
  /\ steps' = steps + 1
  /\ UNCHANGED <<build, halted, born, shapeVars>>

(* The accessors, called as the consumer does: on the object that          *)
(* FindSubobject(name) returns.  The caller's output variables hold unset  *)
(* before the call; res is what the accessor returns, and ref the address  *)
(* of the object it was called on.                                         *)

Found(r, name) == FindSubobject(M, r, name).ret

Read(r, name, op, args, res) ==
  /\ CanCall(r)
  /\ steps < MaxSteps
  /\ Found(r, name) # NoObject
  /\ steps' = steps + 1
  /\ last' = [op |-> op, reg |-> r, name |-> name, ok |-> TRUE, fresh |-> FALSE,
              ref |-> Found(r, name).addr, args |-> args, ret |-> res]
  /\ UNCHANGED <<regs, brk, build, halted, created, born, shapeVars>>

CallGetStateObjectConfig(r, name, unset) ==
  Read(r, name, "GetStateObjectConfig", [Flags |-> unset],
       GetStateObjectConfig(Found(r, name), unset))

CallGetRootSignature(r, name, local, unset) ==
  Read(r, name, "GetRootSignature", [local |-> local, Data |-> unset, Size |-> unset],
       GetRootSignature(Found(r, name), local, unset, unset))

CallGetSubobjectToExportsAssociation(r, name, unset) ==
  Read(r, name, "GetSubobjectToExportsAssociation",
       [Subobject |-> unset, Exports |-> <<unset>>, NumExports |-> unset],
       GetSubobjectToExportsAssociation(Found(r, name), unset, <<unset>>, unset))

CallGetRaytracingShaderConfig(r, name, unset) ==
  Read(r, name, "GetRaytracingShaderConfig",
       [MaxPayloadSizeInBytes |-> unset, MaxAttributeSizeInBytes |-> unset],
       GetRaytracingShaderConfig(Found(r, name), unset, unset))

CallGetRaytracingPipelineConfig(r, name, unset) ==
  Read(r, name, "GetRaytracingPipelineConfig", [MaxTraceRecursionDepth |-> unset],
       GetRaytracingPipelineConfig(Found(r, name), unset))

CallGetHitGroup(r, name, unset) ==
  Read(r, name, "GetHitGroup",
       [Intersection |-> unset, AnyHit |-> unset, ClosestHit |-> unset],
       GetHitGroup(Found(r, name), unset, unset, unset))

----------------------------------------------------------------------------

Init ==
  /\ regs = [r \in RegIds |-> EmptyRegistry]
  /\ brk = HeapBase
  /\ NDEBUG \in BOOLEAN
  /\ SSO \in BOOLEAN
  /\ junk \in (IF SSO THEN Garbage ELSE {""})
  /\ halted = FALSE
  /\ steps = 0
  /\ created = [r \in RegIds |-> {}]
  /\ born = {}
  /\ last = [op |-> "none", reg |-> 0, name |-> "", ok |-> TRUE, fresh |-> FALSE,
             ref |-> NullPtr, args |-> NoObject, ret |-> NoObject]
  /\ type = NoObject
  /\ shape = NoObject

Next ==
  \/ \E r \in RegIds, v \in InternInputs : CallGetSubobjectString(r, v)
  \/ \E r \in RegIds : \E in \in RawBytesInputs(r) : CallGetRawBytes(r, in)
  \/ \E r \in RegIds, n \in Names, f \in FlagInputs :
       CallCreateStateObjectConfig(r, n, f)
  \/ \E r \in RegIds, n \in Names, l \in BOOLEAN :
       \E d \in RootSignatureInputs(r) : CallCreateRootSignature(r, n, l, d)
  \/ \E r \in RegIds, n \in Names, t \in AssociationTargets, x \in ExportInputs :
       CallCreateSubobjectToExportsAssociation(r, n, t, x)
  \/ \E r \in RegIds, n \in Names, in \in ShaderConfigInputs :
       CallCreateRaytracingShaderConfig(r, n, in)
  \/ \E r \in RegIds, n \in Names, d \in PipelineConfigInputs :
       CallCreateRaytracingPipelineConfig(r, n, d)
  \/ \E r \in RegIds, n \in Names, in \in HitGroupInputs : CallCreateHitGroup(r, n, in)
  \/ \E r \in RegIds, q \in RegIds, n \in Names :
       \E e \in regs[q].m_Subobjects : CallCloneSubobject(r, q, e, n)
  \/ \E r \in RegIds, n \in Names : CallRemoveSubobject(r, n)
  \/ \E r \in RegIds, n \in Names : CallFindSubobject(r, n)
  \/ \E r \in RegIds : CallDestroy(r)
  \/ \E r \in RegIds, q \in RegIds : CallMoveConstruct(r, q)
  \/ \E r \in RegIds, n \in Names : CallGetStateObjectConfig(r, n, Unset)
  \/ \E r \in RegIds, n \in Names, l \in BOOLEAN : CallGetRootSignature(r, n, l, Unset)
  \/ \E r \in RegIds, n \in Names : CallGetSubobjectToExportsAssociation(r, n, Unset)
  \/ \E r \in RegIds, n \in Names : CallGetRaytracingShaderConfig(r, n, Unset)
  \/ \E r \in RegIds, n \in Names : CallGetRaytracingPipelineConfig(r, n, Unset)
  \/ \E r \in RegIds, n \in Names : CallGetHitGroup(r, n, Unset)

Spec == Init /\ [][Next]_vars

----------------------------------------------------------------------------
(* TypeTranslator: the shape classifier (declared at lines 40-87; the      *)
(* bodies are in TypeTranslator.cpp).  A source type is                    *)
(*   [form |-> "scalar", elem]                                             *)
(*   [form |-> "vector", ext, elem, count]    ext: an ExtVectorType        *)
(*   [form |-> "matrix", elem, rows, cols]                                 *)
(*   [form |-> "aggregate"]  or  [form |-> "unsupported"].                 *)

MaxDim == 4

ElemKinds == {"bool", "int", "uint", "float", "double"}
FloatingKinds == {"float", "double"}

SourceTypes ==
  {[form |-> "scalar", elem |-> k] : k \in ElemKinds}
  \cup {[form |-> "vector", ext |-> x, elem |-> k, count |-> n] :
          x \in BOOLEAN, k \in ElemKinds, n \in 1..MaxDim}
  \cup {[form |-> "matrix", elem |-> k, rows |-> r, cols |-> c] :
          k \in ElemKinds, r \in 1..MaxDim, c \in 1..MaxDim}
  \cup {[form |-> "aggregate"], [form |-> "unsupported"]}

\* hlsl::IsHLSLMatType(type), and the row and column counts of a matrix type
IsMatType(t) == t.form = "matrix"

\* Each predicate returns [ret] and, when ret, the outputs it writes.
isVectorType(t) ==
  IF t.form = "vector" THEN [ret |-> TRUE, elemType |-> t.elem, count |-> t.count]
  ELSE [ret |-> FALSE]

isVec1Type(t) ==
  LET v == isVectorType(t)
  IN IF v.ret /\ v.count = 1 THEN [ret |-> TRUE, elemType |-> v.elemType]
     ELSE [ret |-> FALSE]

is1x1Matrix(t) ==
  IF IsMatType(t) /\ t.rows = 1 /\ t.cols = 1 THEN [ret |-> TRUE, elemType |-> t.elem]
  ELSE [ret |-> FALSE]

\* A 1xN matrix with N = 1 allowed.
is1xNMatrixFromOne(t) ==
  IF IsMatType(t) /\ t.rows = 1 /\ t.cols >= 1
  THEN [ret |-> TRUE, elemType |-> t.elem, count |-> t.cols]
  ELSE [ret |-> FALSE]

is1xNMatrix(t) ==
  IF IsMatType(t) /\ t.rows = 1 /\ t.cols > 1
  THEN [ret |-> TRUE, elemType |-> t.elem, count |-> t.cols]
  ELSE [ret |-> FALSE]

isMx1Matrix(t) ==
  IF IsMatType(t) /\ t.rows > 1 /\ t.cols = 1
  THEN [ret |-> TRUE, elemType |-> t.elem, count |-> t.rows]
  ELSE [ret |-> FALSE]

isMx1Or1xNMatrix(t) ==
  IF isMx1Matrix(t).ret THEN isMx1Matrix(t)
  ELSE IF is1xNMatrix(t).ret THEN is1xNMatrix(t)
  ELSE [ret |-> FALSE]

is1x1OrMx1Or1xNMatrix(t) ==
  [ret |-> is1x1Matrix(t).ret \/ isMx1Or1xNMatrix(t).ret]

isMxNMatrix(t) ==
  IF IsMatType(t) /\ t.rows > 1 /\ t.cols > 1
  THEN [ret |-> TRUE, elemType |-> t.elem, rowCount |-> t.rows, colCount |-> t.cols]
  ELSE [ret |-> FALSE]

\* An acceptable matrix type whatever its element type is.
isSpirvAcceptableMatrixTypeAnyElem(t) == [ret |-> isMxNMatrix(t).ret]

isSpirvAcceptableMatrixType(t) ==
  LET m == isMxNMatrix(t)
  IN [ret |-> m.ret /\ m.elemType \in FloatingKinds]

\* The caller asks every predicate about one type.
Classify(t) ==
  [isVectorType |-> isVectorType(t),
   isVec1Type |-> isVec1Type(t),
   is1x1Matrix |-> is1x1Matrix(t),
   is1xNMatrix |-> is1xNMatrix(t),
   isMx1Matrix |-> isMx1Matrix(t),
   isMx1Or1xNMatrix |-> isMx1Or1xNMatrix(t),
   is1x1OrMx1Or1xNMatrix |-> is1x1OrMx1Or1xNMatrix(t),
   isMxNMatrix |-> isMxNMatrix(t),
   isSpirvAcceptableMatrixType |-> isSpirvAcceptableMatrixType(t)]

CallClassify ==
  /\ shape = NoObject
  /\ shape' = Classify(type)
  /\ UNCHANGED <<type, registryVars>>

NextType ==
  /\ shape # NoObject
  /\ type' \in SourceTypes
  /\ shape' = NoObject
  /\ UNCHANGED registryVars

ShapeInit ==
  /\ regs = [r \in RegIds |-> EmptyRegistry]
  /\ brk = HeapBase
  /\ NDEBUG = FALSE
  /\ SSO = FALSE
  /\ junk = ""
  /\ halted = FALSE
  /\ steps = 0
  /\ created = [r \in RegIds |-> {}]
  /\ born = {}
  /\ last = [op |-> "none", reg |-> 0, name |-> "", ok |-> TRUE, fresh |-> FALSE,
             ref |-> NullPtr, args |-> NoObject, ret |-> NoObject]
  /\ type \in SourceTypes
  /\ shape = NoObject

ShapeNext == CallClassify \/ NextType

ShapeSpec == ShapeInit /\ [][ShapeNext]_vars

----------------------------------------------------------------------------
(* What the properties below speak about.                                  *)

CreateOps ==
  {"CreateStateObjectConfig", "CreateRootSignature",
   "CreateSubobjectToExportsAssociation", "CreateRaytracingShaderConfig",
   "CreateRaytracingPipelineConfig", "CreateHitGroup"}

AccessorOps ==
  {"GetStateObjectConfig", "GetRootSignature", "GetSubobjectToExportsAssociation",
   "GetRaytracingShaderConfig", "GetRaytracingPipelineConfig", "GetHitGroup"}

\* The entries of registry r in rs that hold the object history cr has
\* under name.
Under(rs, cr, r, name) ==
  {e \in rs[r].m_Subobjects : \E c \in cr[r] : c.name = name /\ c.addr = e.obj.addr}

\* The entry that holds the object at address a.
Holding(rs, r, a) == {e \in rs[r].m_Subobjects : e.obj.addr = a}

InStringStore(rs, r, p) == \E x \in rs[r].m_StringStorage : x.ptr = p
InBlobStore(rs, r, p) == \E x \in rs[r].m_RawBytesStorage : x.ptr = p

\* The strings and the blobs an object references.
StringRefs(obj) ==
  {obj.m_Name} \cup {obj.m_Exports[i] : i \in DOMAIN obj.m_Exports}
  \cup (IF obj.m_Kind = "SubobjectToExportsAssociation" THEN {obj.u.Subobject}
        ELSE IF obj.m_Kind = "HitGroup"
        THEN {obj.u.Intersection, obj.u.AnyHit, obj.u.ClosestHit}
        ELSE {})

BlobRefs(obj) ==
  IF obj.m_Kind \in {"GlobalRootSignature", "LocalRootSignature"} THEN {obj.u.Data}
  ELSE {}

\* The kind an accessor call asks for.
AccessorKind(op, args) ==
  CASE op = "GetStateObjectConfig" -> "StateObjectConfig"
    [] op = "GetRootSignature" ->
         IF args.local THEN "LocalRootSignature" ELSE "GlobalRootSignature"
    [] op = "GetSubobjectToExportsAssociation" -> "SubobjectToExportsAssociation"
    [] op = "GetRaytracingShaderConfig" -> "RaytracingShaderConfig"
    [] op = "GetRaytracingPipelineConfig" -> "RaytracingPipelineConfig"
    [] op = "GetHitGroup" -> "HitGroup"

----------------------------------------------------------------------------
(* C1.  A Create* or CloneSubobject under a name that is already stored    *)
(* in the registry is rejected, and the object stored under that name is   *)
(* left as it was.                                                         *)
C1_DuplicateNameRejected ==
  [][(last'.op \in CreateOps \cup {"CloneSubobject"}
      /\ Under(regs, created, last'.reg, last'.name) # {})
     => (~last'.ok
         /\ Under(regs', created, last'.reg, last'.name)
              = Under(regs, created, last'.reg, last'.name))]_vars

(* C2.  Every string and every blob a stored object references is an       *)
(* instance of the string store or of the blob store of the registry that  *)
(* holds the object.                                                       *)
C2_ReferencesInterned ==
  \A r \in RegIds : \A e \in regs[r].m_Subobjects :
    /\ \A p \in StringRefs(e.obj) : InStringStore(regs, r, p)
    /\ \A p \in BlobRefs(e.obj) : InBlobStore(regs, r, p)

(* C3.  After CloneSubobject into a registry other than the source's, every *)
(* reference of the clone points into the destination's stores and none    *)
(* into the source registry's.                                             *)
C3_CrossRegistryCloneIsolated ==
  (last.op = "CloneSubobject" /\ last.ok /\ last.args.from # last.reg)
  => \A e \in Holding(regs, last.reg, last.ref) :
       /\ \A p \in StringRefs(e.obj) :
            InStringStore(regs, last.reg, p) /\ ~InStringStore(regs, last.args.from, p)
       /\ \A p \in BlobRefs(e.obj) :
            InBlobStore(regs, last.reg, p) /\ ~InBlobStore(regs, last.args.from, p)

(* C4.  CreateStateObjectConfig succeeds on flags within the valid mask,   *)
(* is rejected on flags with a bit outside it, and no stored               *)
(* StateObjectConfig has a flag bit outside the valid mask.                *)
C4_FlagsWithinValidMask ==
  /\ (last.op = "CreateStateObjectConfig" /\ BitAndNot(last.args.Flags, ValidMask) # 0)
       => ~last.ok
  /\ (last.op = "CreateStateObjectConfig" /\ BitAndNot(last.args.Flags, ValidMask) = 0
      /\ last.fresh) => last.ok
  /\ \A r \in RegIds : \A e \in regs[r].m_Subobjects :
       e.obj.m_Kind = "StateObjectConfig" => BitAndNot(e.obj.u.Flags, ValidMask) = 0

(* C5.  An accessor returns success exactly when the object it is called   *)
(* on was created with the accessor's kind, and when it fails every output *)
(* argument holds what it held before the call.                            *)
C5_AccessorKindContract ==
  last.op \in AccessorOps
  => /\ last.ret.ret <=> BornKind(last.ref) = AccessorKind(last.op, last.args)
     /\ ~last.ret.ret
          => \A f \in DOMAIN last.args \ {"local"} : last.ret[f] = last.args[f]

\* GetRootSignature(local = true) was called on a global root signature and
\* left Data and Size as they were.
C5_Witness ==
  /\ last.op = "GetRootSignature"
  /\ last.args.local
  /\ BornKind(last.ref) = "GlobalRootSignature"
  /\ ~last.ret.ret
  /\ last.ret.Data = Unset

(* C6.  GetSubobjectString of a content the registry already holds returns *)
(* the instance stored for it and adds nothing to the string store.        *)
C6_StringInternIdempotent ==
  [][last'.op = "GetSubobjectString"
     => \A e \in regs[last'.reg].m_StringStorage :
          e.str = last'.name
          => /\ last'.ret.ptr = e.ptr
             /\ regs'[last'.reg].m_StringStorage = regs[last'.reg].m_StringStorage]_vars

(* C7.  GetRawBytes of bytes equal, in content and size, to a blob the     *)
(* registry already holds returns the instance stored for them and adds    *)
(* nothing to the blob store.                                              *)
C7_BlobInternByContent ==
  [][(last'.op = "GetRawBytes" /\ last'.args.ptr # HugeBlob)
     => \A e \in regs[last'.reg].m_RawBytesStorage :
          e.bytes = SubSeq(BytesAt(regs, last'.args.ptr), 1, last'.args.size.lo)
          => /\ last'.ret.ptr = e.ptr
             /\ regs'[last'.reg].m_RawBytesStorage = regs[last'.reg].m_RawBytesStorage]_vars

(* C8.  RemoveSubobject(name) deletes the entry stored under name, if any, *)
(* and changes nothing else: not the other entries, not the string store,  *)
(* not the blob store, not another registry.                               *)
C8_RemoveFrame ==
  [][last'.op = "RemoveSubobject"
     => /\ regs'[last'.reg].m_Subobjects =
             regs[last'.reg].m_Subobjects \ Under(regs, created, last'.reg, last'.name)
        /\ regs'[last'.reg].m_StringStorage = regs[last'.reg].m_StringStorage
        /\ regs'[last'.reg].m_RawBytesStorage = regs[last'.reg].m_RawBytesStorage
        /\ regs'[last'.reg].alive = regs[last'.reg].alive
        /\ \A q \in RegIds \ {last'.reg} : regs'[q] = regs[q]
        /\ brk' = brk]_vars

(* C9.  FindSubobject(name) returns an object exactly when a create or a   *)
(* clone under name succeeded and no RemoveSubobject(name) followed it,    *)
(* and it changes nothing in the registry.                                 *)
C9_FindAfterHistory ==
  [][last'.op = "FindSubobject"
     => /\ last'.ret # NoObject <=> \E c \in created[last'.reg] : c.name = last'.name
        /\ regs' = regs
        /\ brk' = brk]_vars

\* The kind a Create* call makes.
CreatedKind(op, args) ==
  CASE op = "CreateStateObjectConfig" -> "StateObjectConfig"
    [] op = "CreateRootSignature" ->
         IF args.local THEN "LocalRootSignature" ELSE "GlobalRootSignature"
    [] op = "CreateSubobjectToExportsAssociation" -> "SubobjectToExportsAssociation"
    [] op = "CreateRaytracingShaderConfig" -> "RaytracingShaderConfig"
    [] op = "CreateRaytracingPipelineConfig" -> "RaytracingPipelineConfig"
    [] op = "CreateHitGroup" -> "HitGroup"

\* What an accessor returned (out), read through memory rs, is what was
\* passed to the Create* call (in).
SamePayload(rs, kind, in, out) ==
  CASE kind = "StateObjectConfig" -> out.Flags = in.Flags
    [] kind \in {"GlobalRootSignature", "LocalRootSignature"} ->
         /\ out.Size = in.Size
         /\ BlobResolvable(rs, out.Data)
         /\ SubSeq(BytesAt(rs, out.Data), 1, out.Size) = in.bytes
    [] kind = "SubobjectToExportsAssociation" ->
         /\ StrResolvable(rs, out.Subobject)
         /\ StrAt(rs, out.Subobject) = in.Subobject
         /\ out.NumExports = in.NumExports
         /\ Len(out.Exports) = in.NumExports
         /\ \A i \in 1..in.NumExports :
              StrResolvable(rs, out.Exports[i]) /\ StrAt(rs, out.Exports[i]) = in.strings[i]
    [] kind = "RaytracingShaderConfig" ->
         /\ out.MaxPayloadSizeInBytes = in.MaxPayloadSizeInBytes
         /\ out.MaxAttributeSizeInBytes = in.MaxAttributeSizeInBytes
    [] kind = "RaytracingPipelineConfig" ->
         out.MaxTraceRecursionDepth = in.MaxTraceRecursionDepth
    [] kind = "HitGroup" ->
         /\ \A p \in {out.Intersection, out.AnyHit, out.ClosestHit} : StrResolvable(rs, p)
         /\ StrAt(rs, out.Intersection) = in.Intersection
         /\ StrAt(rs, out.AnyHit) = in.AnyHit
         /\ StrAt(rs, out.ClosestHit) = in.ClosestHit

(* C10.  A successful Create* under a fresh name, followed by FindSubobject *)
(* and the accessor of the created kind, reads back the payload that was   *)
(* passed to Create*.                                                      *)
C10_CreateReadRoundTrip ==
  [][(/\ last.op \in CreateOps
      /\ last.ok
      /\ last.fresh
      /\ last'.op \in AccessorOps
      /\ last'.reg = last.reg
      /\ last'.name = last.name
      /\ AccessorKind(last'.op, last'.args) = CreatedKind(last.op, last.args))
     => /\ last'.ret.ret
        /\ SamePayload(regs', CreatedKind(last.op, last.args), last.args, last'.ret)]_vars

\* The payload of obj by content: what its fields hold, strings and bytes
\* read through memory rs.
StrContent(rs, p) == IF StrResolvable(rs, p) THEN <<"chars", StrAt(rs, p)>> ELSE <<"dangling">>

BlobContent(rs, p, size) ==
  IF BlobResolvable(rs, p) THEN <<"bytes", SubSeq(BytesAt(rs, p), 1, size)>>
  ELSE <<"dangling">>

PayloadContent(rs, obj) ==
  [kind |-> obj.m_Kind,
   exports |-> [i \in DOMAIN obj.m_Exports |-> StrContent(rs, obj.m_Exports[i])],
   u |-> CASE obj.m_Kind \in {"GlobalRootSignature", "LocalRootSignature"} ->
                [Size |-> obj.u.Size, Data |-> BlobContent(rs, obj.u.Data, obj.u.Size)]
           [] obj.m_Kind = "SubobjectToExportsAssociation" ->
                [Subobject |-> StrContent(rs, obj.u.Subobject)]
           [] obj.m_Kind = "HitGroup" ->
                [Intersection |-> StrContent(rs, obj.u.Intersection),
                 AnyHit |-> StrContent(rs, obj.u.AnyHit),
                 ClosestHit |-> StrContent(rs, obj.u.ClosestHit)]
           [] OTHER -> obj.u]

(* C11.  A successful CloneSubobject under a fresh name stores, under that *)
(* name, an object of the source's kind whose payload equals the source's  *)
(* by content, and leaves every entry of the source registry as it was.    *)
C11_ClonePreservesPayload ==
  [][(last'.op = "CloneSubobject" /\ last'.ok /\ last'.fresh)
     => /\ \E e \in Holding(regs', last'.reg, last'.ref) :
             /\ StrContent(regs', e.key) = <<"chars", last'.name>>
             /\ StrContent(regs', e.obj.m_Name) = <<"chars", last'.name>>
             /\ \A src \in Holding(regs, last'.args.from, last'.args.source) :
                  PayloadContent(regs', e.obj) = PayloadContent(regs, src.obj)
        /\ regs[last'.args.from].m_Subobjects \subseteq regs'[last'.args.from].m_Subobjects]_vars

\* The name history cr has for the object at address a in registry r.
NamesOf(cr, r, a) == {c.name : c \in {x \in cr[r] : x.addr = a}}

(* C12.  In every registry no two entries of the map have the same name,   *)
(* and every entry is keyed by the name of the object it holds: the key    *)
(* and the object's m_Name both read as the name the object was created or *)
(* cloned under.                                                           *)
C12_NamesUnique ==
  \A r \in RegIds :
    /\ \A e1, e2 \in regs[r].m_Subobjects :
         StrContent(regs, e1.key) = StrContent(regs, e2.key) => e1 = e2
    /\ \A e \in regs[r].m_Subobjects :
         /\ StrContent(regs, e.key) = StrContent(regs, e.obj.m_Name)
         /\ \A n \in NamesOf(created, r, e.obj.addr) : StrContent(regs, e.key) = <<"chars", n>>
         /\ NamesOf(created, r, e.obj.addr) # {}

\* All objects held by the registries rs, by address.
Objects(rs) == UNION {{e.obj : e \in rs[r].m_Subobjects} : r \in RegIds}

(* C13.  The kind of a stored object is one of the seven declared kinds    *)
(* and is the kind it was constructed with, and no step changes the kind   *)
(* of an object that is stored before and after it.                        *)
C13_KindFixed ==
  /\ [](\A o \in Objects(regs) : o.m_Kind \in Kind /\ o.m_Kind = BornKind(o.addr))
  /\ [][\A o \in Objects(regs) : \A n \in Objects(regs') :
          o.addr = n.addr => o.m_Kind = n.m_Kind]_vars

\* A hit group is still stored, as a hit group, after another object was
\* removed from its registry.
C13_Witness ==
  /\ last.op = "RemoveSubobject"
  /\ ~last.fresh
  /\ \E e \in regs[last.reg].m_Subobjects :
       e.obj.m_Kind = "HitGroup" /\ BornKind(e.obj.addr) = "HitGroup"

\* The predicates of the five shapes, by name, and the category of a type.
ShapePredicates ==
  {"isVectorType", "is1x1Matrix", "is1xNMatrix", "isMx1Matrix", "isMxNMatrix"}

Holds(sh) == {p \in ShapePredicates : sh[p].ret}

(* C14.  For every type at most one of isVectorType, is1x1Matrix,          *)
(* is1xNMatrix, isMx1Matrix, isMxNMatrix is true; exactly one is true for  *)
(* a vector or a matrix, the one of its shape, and none for a scalar, an   *)
(* aggregate or an unsupported type; isMx1Or1xNMatrix and                  *)
(* is1x1OrMx1Or1xNMatrix are true exactly on the shapes they name.         *)
C14_ShapesPartition ==
  shape # NoObject
  => /\ Cardinality(Holds(shape)) <= 1
     /\ Holds(shape) =
          CASE type.form = "vector" -> {"isVectorType"}
            [] type.form = "matrix" /\ type.rows = 1 /\ type.cols = 1 -> {"is1x1Matrix"}
            [] type.form = "matrix" /\ type.rows = 1 /\ type.cols > 1 -> {"is1xNMatrix"}
            [] type.form = "matrix" /\ type.rows > 1 /\ type.cols = 1 -> {"isMx1Matrix"}
            [] type.form = "matrix" /\ type.rows > 1 /\ type.cols > 1 -> {"isMxNMatrix"}
            [] OTHER -> {}
     /\ shape.isMx1Or1xNMatrix.ret <=> (shape.isMx1Matrix.ret \/ shape.is1xNMatrix.ret)
     /\ shape.is1x1OrMx1Or1xNMatrix.ret
          <=> (shape.is1x1Matrix.ret \/ shape.isMx1Matrix.ret \/ shape.is1xNMatrix.ret)

\* A 1x1 matrix was classified.
C14_Witness ==
  /\ shape # NoObject
  /\ type.form = "matrix"
  /\ type.rows = 1
  /\ type.cols = 1
  /\ shape.is1x1Matrix.ret

(* C15.  isSpirvAcceptableMatrixType is true exactly for a matrix of more  *)
(* than one row and more than one column whose elements are floating       *)
(* point.                                                                  *)
C15_AcceptableMatrix ==
  shape # NoObject
  => (shape.isSpirvAcceptableMatrixType.ret
      <=> /\ type.form = "matrix"
          /\ type.rows > 1
          /\ type.cols > 1
          /\ type.elem \in {"float", "double"})

\* An integer matrix of several rows and columns was refused.
C15_Witness ==
  /\ shape # NoObject
  /\ type.form = "matrix"
  /\ type.rows > 1
  /\ type.cols > 1
  /\ type.elem = "int"
  /\ ~shape.isSpirvAcceptableMatrixType.ret

(* C16.  CreateSubobjectToExportsAssociation under a fresh name succeeds   *)
(* whether or not an object named Subobject exists; and when               *)
(* RemoveSubobject(X) follows the creation, under another name, of an      *)
(* association whose Subobject is X, the association's entry is still      *)
(* there and unaltered, its accessor still gives X and the same exports,   *)
(* and FindSubobject(X) returns nothing.                                   *)
C16_AssociationByNameOnly ==
  [][/\ (last'.op = "CreateSubobjectToExportsAssociation" /\ last'.fresh) => last'.ok
     /\ (/\ last'.op = "RemoveSubobject"
         /\ last.op = "CreateSubobjectToExportsAssociation"
         /\ last.ok
         /\ last.reg = last'.reg
         /\ last.args.Subobject = last'.name
         /\ last.name # last'.name)
        => /\ Holding(regs', last.reg, last.ref) = Holding(regs, last.reg, last.ref)
           /\ \E e \in Holding(regs', last.reg, last.ref) :
                LET got == GetSubobjectToExportsAssociation(e.obj, Unset, <<Unset>>, Unset)
                IN /\ got.ret
                   /\ StrContent(regs', got.Subobject) = <<"chars", last'.name>>
                   /\ got.NumExports = last.args.NumExports
                   /\ \A i \in 1..got.NumExports :
                        StrContent(regs', got.Exports[i]) = <<"chars", last.args.strings[i]>>
           /\ FindSubobject([regs |-> regs', brk |-> brk'], last'.reg, last'.name).ret
                = NoObject]_vars

(* C17.  When GetRawBytes is called twice in a row on one registry with    *)
(* the same buffer and size, the second call returns the instance the      *)
(* first returned and adds nothing to the blob store, so the two calls     *)
(* add at most the one entry of the first.                                 *)
C17_SameBufferOnce ==
  [][(/\ last.op = "GetRawBytes"
      /\ last'.op = "GetRawBytes"
      /\ last.ok
      /\ last'.ok
      /\ last'.reg = last.reg
      /\ last'.args = last.args
      /\ last.args.ptr # HugeBlob)
     => /\ last'.ret.ptr = last.ret.ptr
        /\ regs'[last.reg].m_RawBytesStorage = regs[last.reg].m_RawBytesStorage]_vars

\* The contents the string store of registry r holds.
StoredContents(rs, r) == {e.str : e \in rs[r].m_StringStorage}

(* C18.  Whatever the order of the calls, a string store holds one         *)
(* instance per distinct content; GetSubobjectString(c) leaves the store   *)
(* holding the contents it held and c, whichever were interned first, and  *)
(* returns the stored instance whose characters are c.                     *)
C18_InternOrderIndependent ==
  /\ [](\A r \in RegIds : \A x \in regs[r].m_StringStorage :
          \A y \in regs[r].m_StringStorage : x.str = y.str => x = y)
  /\ [][last'.op = "GetSubobjectString"
         => /\ StoredContents(regs', last'.reg)
                 = StoredContents(regs, last'.reg) \cup {last'.name}
            /\ InStringStore(regs', last'.reg, last'.ret.ptr)
            /\ StrContent(regs', last'.ret.ptr) = <<"chars", last'.name>>]_vars

(* C19.  Every object held in the map of a registry has that registry as   *)
(* its m_Owner, also after the registry was move-constructed from          *)
(* another; so the test CloneSubobject makes, owner different from the     *)
(* source's m_Owner, is true exactly when the source is held by a          *)
(* registry other than the one cloning.                                    *)
C19_OwnerConsistent ==
  /\ [](\A r \in RegIds : \A e \in regs[r].m_Subobjects : e.obj.m_Owner = r)
  /\ [][(last'.op = "CloneSubobject" /\ last'.ok)
         => \A src \in Holding(regs, last'.args.from, last'.args.source) :
              (last'.reg # src.obj.m_Owner) <=> (last'.reg # last'.args.from)]_vars

(* C20 as stated.  A GetRawBytes call with size >= UINT_MAX returns null   *)
(* and leaves the blob store unchanged; a call with size < UINT_MAX and a  *)
(* ptr that is not a stored instance adds exactly one entry, holding a     *)
(* copy of the size bytes at ptr, and returns the address of that entry,   *)
(* which is not ptr.                                                       *)
C20_SizeLimit ==
  [][last'.op = "GetRawBytes"
     => LET r == last'.reg
            in == last'.args
        IN /\ ~SizeLess(in.size, UINT_MAX)
              => /\ last'.ok
                 /\ last'.ret.ptr = NullPtr
                 /\ regs'[r].m_RawBytesStorage = regs[r].m_RawBytesStorage
           /\ (SizeLess(in.size, UINT_MAX) /\ ~InBlobStore(regs, r, in.ptr))
              => /\ last'.ok
                 /\ last'.ret.ptr # in.ptr
                 /\ ~InBlobStore(regs, r, last'.ret.ptr)
                 /\ regs'[r].m_RawBytesStorage =
                      regs[r].m_RawBytesStorage
                      \cup {[ptr |-> last'.ret.ptr,
                             bytes |-> SubSeq(BytesAt(regs, in.ptr), 1, in.size.lo)]}]_vars

(* C20, amended.  A GetRawBytes call whose ptr is not a stored instance    *)
(* and whose size is >= UINT_MAX leaves the blob store unchanged and, when *)
(* the build has no assertions, returns null; in a build with assertions   *)
(* the assertion on the size fires.  A call whose ptr is a stored instance *)
(* returns ptr whatever the size.  A call with size < UINT_MAX and a ptr   *)
(* that is not a stored instance adds exactly one entry, holding a copy of *)
(* the size bytes at ptr, and returns the address of that entry, which is  *)
(* not ptr.                                                                *)
C20_SizeLimitUnlessStored ==
  [][last'.op = "GetRawBytes"
     => LET r == last'.reg
            in == last'.args
        IN /\ (~SizeLess(in.size, UINT_MAX) /\ ~InBlobStore(regs, r, in.ptr))
              => /\ last'.ok <=> NDEBUG
                 /\ last'.ret.ptr = NullPtr
                 /\ regs'[r].m_RawBytesStorage = regs[r].m_RawBytesStorage
           /\ InBlobStore(regs, r, in.ptr)
              => /\ last'.ok
                 /\ last'.ret.ptr = in.ptr
                 /\ regs'[r].m_RawBytesStorage = regs[r].m_RawBytesStorage
           /\ (SizeLess(in.size, UINT_MAX) /\ ~InBlobStore(regs, r, in.ptr))
              => /\ last'.ok
                 /\ last'.ret.ptr # in.ptr
                 /\ ~InBlobStore(regs, r, last'.ret.ptr)
                 /\ regs'[r].m_RawBytesStorage =
                      regs[r].m_RawBytesStorage
                      \cup {[ptr |-> last'.ret.ptr,
                             bytes |-> SubSeq(BytesAt(regs, in.ptr), 1, in.size.lo)]}]_vars

\* A release build returned null for a buffer of UINT_MAX bytes.
C20_Witness ==
  /\ last.op = "GetRawBytes"
  /\ last.args.ptr = HugeBlob
  /\ last.args.size = UINT_MAX
  /\ NDEBUG
  /\ last.ok
  /\ last.ret.ptr = NullPtr

====
